---- MODULE Spec2Model ----
(***************************************************************************)
(* Model of puffer's FileDescriptor (src/util/file_descriptor.cc): an      *)
(* owning wrapper around one OS handle that keeps weak back-references to  *)
(* the Epollers watching it, together with the operating system's handle   *)
(* table and the Epoller's registration table it talks to; and of          *)
(* run_servers (src/media-server/run_servers.cc), which looks up           *)
(* experiment ids, starts the media servers and log reporters as children  *)
(* of a ProcessManager and waits for them.                                 *)
(***************************************************************************)
EXTENDS Integers, Sequences, FiniteSets, TLC

(* ------------------------------ bounds --------------------------------- *)
NumDescs == 2          \* FileDescriptor objects that can be constructed
NumHandles == 1        \* handle values the OS hands out
NumEpollers == 2       \* Epoller objects that can be created
MaxCloseCalls == 1     \* explicit close() is offered while fewer ::close calls were issued
MaxCount == 1          \* read()/write() are offered while the counter is below this
MaxLen == 3            \* longest buffer handed to write()
MaxReads == 4          \* file reads are offered while the read counter is below this
NumExpts == 2          \* longest list of experiments in the configuration
MaxServers == 2        \* largest num_servers of an experiment
NumLogStems == 2       \* how many of the log stems of run_servers are started per server
MaxChildren == 6       \* configurations explored start at most this many children
NumCallers == 2        \* processes that look up experiment ids in the same database

(* --------------------------- value domains ----------------------------- *)
Descs == 1..NumDescs
Handles == 3..(2 + NumHandles)
Epollers == 1..NumEpollers
Invalid == 0 - 1
None == 0
(* Epoller::fd_num(): the Epoller's own handle; values come back into use *)
fd_num(e) == 10 + (e % 2)
EpollFds == {fd_num(e) : e \in Epollers}
BUFFER_SIZE == 2
Bytes == {"a", "b"}

VARIABLES
  dstate,        \* [Descs -> {"unborn","alive","destroyed"}] object lifetime
  fd_,           \* FileDescriptor::fd_
  eof_,          \* FileDescriptor::eof_
  read_count_,   \* FileDescriptor::read_count_
  write_count_,  \* FileDescriptor::write_count_
  epollers_,     \* FileDescriptor::epollers_ : key -> weak_ptr<Epoller> (None = no entry)
  estate,        \* [Epollers -> {"unborn","live","dead"}] control block of each Epoller
  reg,           \* [Epollers -> SUBSET Handles] registration table of each Epoller
  open,          \* handles currently open in the OS handle table
  closeCalls,    \* ::close calls issued on a handle since the OS handed it out
  trace,         \* calls the last close()/destructor issued: <<call, Epoller, handle, outcome>>
  last,          \* the most recent operation and how it ended
  wlog,          \* ::write calls the last operation issued: <<cursor, bytes the OS took>>
  file,          \* bytes of the seekable resource behind the handle used for I/O
  offset,        \* the OS file offset of that handle
  rt             \* progress of a write / reset / read-until-EOF round trip

VARIABLES
  config,        \* the loaded YAML: enable_logging and the list of experiments
  pc,            \* where main() of run_servers is
  server_id,     \* main: server_id
  expt,          \* main: position of the outer loop in config["experiments"]
  expt_id,       \* main: expt_id
  server_i,      \* main: i of the inner loop
  children,      \* the children proc_manager tracks, in the order they were started
  posts,         \* measurements posted to InfluxDB: <<metric, state>>
  wait_ret,      \* what proc_manager.wait() returned
  exit_status,   \* exit status of the run_servers process
  rows,          \* table puffer_experiment
  seq,           \* last value of the sequence behind its SERIAL id
  call,          \* [Callers -> a call of retrieve_expt_id in progress]
  returned       \* what the calls of retrieve_expt_id have returned so far

orchVars == <<config, pc, server_id, expt, expt_id, server_i, children, posts, wait_ret,
              exit_status, rows, seq, call, returned>>

lifeVars == <<dstate, fd_, eof_, read_count_, write_count_, epollers_,
              estate, reg, open, closeCalls, trace>>
ioVars == <<wlog, file, offset, rt>>
vars == <<dstate, fd_, eof_, read_count_, write_count_, epollers_,
          estate, reg, open, closeCalls, trace, last, wlog, file, offset, rt,
          config, pc, server_id, expt, expt_id, server_i, children, posts, wait_ret,
          exit_status, rows, seq, call, returned>>

NoEpollers == [k \in EpollFds |-> None]

Result(op, d, arg, raised, warned, ret) ==
  [op |-> op, d |-> d, arg |-> arg, raised |-> raised, warned |-> warned, ret |-> ret]

(* the operation returned normally after writing a warning to cerr *)
Warning(op) == Result(op, 0, 0, FALSE, TRUE, 0)

(* weak_ptr<Epoller>::lock(): succeeds while the Epoller object is alive *)
lock(e) == e # None /\ estate[e] = "live"

(* keys of d's epollers_ map *)
Keys(d) == {k \in EpollFds : epollers_[d][k] # None}

(* the Epollers d's map refers to that are still alive *)
Attached(d) == {e \in Epollers : epollers_[d][fd_num(e)] = e /\ lock(e)}

(* the iteration orders an unordered_map over the key set S can produce *)
Orders(S) ==
  {o \in [1..Cardinality(S) -> S] : \A i, j \in 1..Cardinality(S) : o[i] = o[j] => i = j}

(* ------------------------- Epoller (contract) -------------------------- *)
(* register(descriptor): the Epoller starts watching handle h *)
register(regs, e, h) == [regs EXCEPT ![e] = @ \cup {h}]

(* deregister(descriptor): stops watching; unknown handle is a no-op *)
deregister(regs, e, h) == [regs EXCEPT ![e] = @ \ {h}]

(* ------------------------------- the OS -------------------------------- *)
(* outcomes of ::close(h): success, or -1 with the handle released anyway  *)
(* (EINTR/EIO) or left open; on a handle that is not open only EBADF       *)
CloseOutcomes(h) == IF h \in open THEN {"ok", "fail_released", "fail_kept"} ELSE {"ebadf"}

OsClose(h, outcome) ==
  [open |-> IF outcome \in {"ok", "fail_released"} THEN open \ {h} ELSE open,
   calls |-> [closeCalls EXCEPT ![h] = @ + 1],
   failed |-> outcome # "ok"]

(* --------------------------- FileDescriptor ---------------------------- *)
(* variant: the loop returns after the first entry of the map *)
notify_first_only(d, order, i, dfail, regs, tr) ==
  IF Len(order) = 0 \/ ~lock(epollers_[d][order[1]])
  THEN [regs |-> regs, tr |-> tr, raised |-> FALSE]
  ELSE IF epollers_[d][order[1]] \in dfail
  THEN [regs |-> regs,
        tr |-> Append(tr, <<"deregister", epollers_[d][order[1]], fd_[d], "fail">>),
        raised |-> TRUE]
  ELSE [regs |-> deregister(regs, epollers_[d][order[1]], fd_[d]),
        tr |-> Append(tr, <<"deregister", epollers_[d][order[1]], fd_[d], "ok">>),
        raised |-> FALSE]

IsLiveCall(c) == estate[c[2]] = "live"

(* variant: every Epoller alive is told, whether the map holds it or not *)
notify_all_live(d, order, i, dfail, regs, tr) ==
  [regs |-> [e \in Epollers |-> IF estate[e] = "live" THEN regs[e] \ {fd_[d]} ELSE regs[e]],
   tr |-> SelectSeq([e \in 1..NumEpollers |-> <<"deregister", e, fd_[d], "ok">>], IsLiveCall),
   raised |-> FALSE]

(* for each epoller_item of epollers_: lock(); if live, deregister this descriptor *)
RECURSIVE notify_epollers(_, _, _, _, _, _)
notify_epollers(d, order, i, dfail, regs, tr) ==
  IF i > Len(order)
  THEN [regs |-> regs, tr |-> tr, raised |-> FALSE]
  ELSE LET e == epollers_[d][order[i]]
       IN IF lock(e)
          THEN IF e \in dfail
               THEN [regs |-> regs, tr |-> Append(tr, <<"deregister", e, fd_[d], "fail">>),
                     raised |-> TRUE]
               ELSE notify_epollers(d, order, i + 1, dfail,
                                    deregister(regs, e, fd_[d]),
                                    Append(tr, <<"deregister", e, fd_[d], "ok">>))
          ELSE notify_epollers(d, order, i + 1, dfail, regs, tr)

(* FileDescriptor::close(): order is the map's iteration order, dfail the  *)
(* Epollers whose deregister throws, outcome what ::close does             *)
close(d, order, dfail, outcome) ==
  IF fd_[d] < 0
  THEN [fd |-> fd_[d], regs |-> reg, open |-> open, calls |-> closeCalls,
        tr |-> <<>>, raised |-> FALSE]
  ELSE LET n == notify_epollers(d, order, 1, dfail, reg, <<>>)
       IN IF n.raised
          THEN [fd |-> fd_[d], regs |-> n.regs, open |-> open, calls |-> closeCalls,
                tr |-> n.tr, raised |-> TRUE]
          ELSE LET c == OsClose(fd_[d], outcome)
               IN [fd |-> IF c.failed THEN fd_[d] ELSE Invalid,
                   regs |-> n.regs, open |-> c.open, calls |-> c.calls,
                   tr |-> Append(n.tr, <<"close", 0, fd_[d],
                                          IF c.failed THEN "fail" ELSE "ok">>),
                   raised |-> c.failed]

(* variant: the destructor lets the exception out *)
destructor_rethrows(closeRaised) == closeRaised

(* ~FileDescriptor(): try { close(); } catch (const exception &) { print } *)
destructor_raises(closeRaised) == FALSE

(* variant: the entry is never stored *)
attach_epoller_dropped(m, e) == m

(* variant: an entry found under the key is erased *)
attach_epoller_evict(m, e) ==
  IF m[fd_num(e)] # None THEN [m EXCEPT ![fd_num(e)] = None] ELSE [m EXCEPT ![fd_num(e)] = e]

(* epollers_.emplace(epoller_ptr->fd_num(), move(epoller_ptr)) *)
attach_epoller(m, e) ==
  IF m[fd_num(e)] # None THEN m ELSE [m EXCEPT ![fd_num(e)] = e]

(* variant: clear() in place of erase(key) *)
detach_epoller_clear(m, k) == NoEpollers

(* epollers_.erase(epoller_fd) *)
detach_epoller(m, k) == [m EXCEPT ![k] = None]

(* what one ::read of up to n bytes can deliver on handle h: an error, end  *)
(* of file (nothing), or between 1 and n bytes                             *)
ReadResults(h, n) ==
  IF h \notin open THEN {[n |-> 0 - 1, data |-> <<>>]}
  ELSE {[n |-> 0 - 1, data |-> <<>>]}
       \cup {[n |-> Len(s), data |-> s] : s \in UNION {[1..k -> Bytes] : k \in 0..n}}

Min(a, b) == IF a < b THEN a ELSE b

(* read(limit): one ::read of min(BUFFER_SIZE, limit) bytes that ended as res *)
read(eof, rc, res) ==
  IF res.n < 0
  THEN [raised |-> TRUE, eof |-> eof, rc |-> rc, ret |-> <<>>]
  ELSE [raised |-> FALSE, eof |-> IF res.n = 0 THEN TRUE ELSE eof,
        rc |-> rc + 1, ret |-> res.data]

(* what one ::write of req > 0 bytes can return on handle h: -1, or the    *)
(* number of bytes taken, 0..req                                           *)
WriteResults(h, req) == IF h \notin open THEN {0 - 1} ELSE (0 - 1)..req

(* bytes begin+1 .. begin+n of buffer (begin counts the bytes before the cursor) *)
Slice(buffer, begin, n) == [i \in 1..n |-> buffer[begin + i]]

(* variant: a ::write that took nothing is treated like any other *)
write_some_counts_stall(buffer, begin, n, wc) ==
  IF begin >= Len(buffer)
  THEN [raised |-> "nothing to write", it |-> begin, wc |-> wc, calls |-> <<>>]
  ELSE IF n < 0
  THEN [raised |-> "unix_error", it |-> begin, wc |-> wc, calls |-> << <<begin, <<>>, n>> >>]
  ELSE [raised |-> "none", it |-> begin + n, wc |-> wc + 1,
        calls |-> << <<begin, Slice(buffer, begin, n), n>> >>]

(* write(begin, end): one attempt with the cursor at begin, ::write returning n *)
write_some(buffer, begin, n, wc) ==
  IF begin >= Len(buffer)
  THEN [raised |-> "nothing to write", it |-> begin, wc |-> wc, calls |-> <<>>]
  ELSE IF n < 0
  THEN [raised |-> "unix_error", it |-> begin, wc |-> wc, calls |-> << <<begin, <<>>, n>> >>]
  ELSE IF n = 0
  THEN [raised |-> "write returned 0", it |-> begin, wc |-> wc,
        calls |-> << <<begin, <<>>, n>> >>]
  ELSE [raised |-> "none", it |-> begin + n, wc |-> wc + 1,
        calls |-> << <<begin, Slice(buffer, begin, n), n>> >>]

(* variant: the loop condition forgets write_all *)
continue_write_always(write_all, it, buffer) == it # Len(buffer)

(* do { it = write( it, buffer.end() ); } while ( write_all and it != end ) *)
continue_write(write_all, it, buffer) == write_all /\ it # Len(buffer)

(* write(buffer, write_all) from cursor it: every way it can run against   *)
(* handle h, the OS choosing each ::write result; fuel bounds the          *)
(* iterations explored and "diverged" marks a run that needs more          *)
RECURSIVE write(_, _, _, _, _, _, _)
write(h, buffer, write_all, it, wc, log, fuel) ==
  IF fuel = 0
  THEN {[raised |-> "diverged", it |-> it, wc |-> wc, calls |-> log]}
  ELSE UNION {
         LET w == write_some(buffer, it, n, wc)
         IN IF w.raised # "none"
            THEN {[raised |-> w.raised, it |-> it, wc |-> wc, calls |-> log \o w.calls]}
            ELSE IF continue_write(write_all, w.it, buffer)
                 THEN write(h, buffer, write_all, w.it, w.wc, log \o w.calls, fuel - 1)
                 ELSE {[raised |-> "none", it |-> w.it, wc |-> w.wc,
                        calls |-> log \o w.calls]}
         : n \in WriteResults(h, Len(buffer) - it)}

Buffers == UNION {[1..k -> Bytes] : k \in 0..MaxLen}

(* the bytes the ::write calls of log took, in the order of the calls *)
RECURSIVE Written(_, _)
Written(log, i) == IF i > Len(log) THEN <<>> ELSE log[i][2] \o Written(log, i + 1)

(* ------------------------ the OS: a regular file ----------------------- *)
Hole == "0"

(* the file after ::write put bytes at offset off; a gap reads as zero bytes *)
WriteAt(content, off, bytes) ==
  [i \in 1..(IF off + Len(bytes) > Len(content) THEN off + Len(bytes) ELSE Len(content)) |->
     IF i > off /\ i <= off + Len(bytes) THEN bytes[i - off]
     ELSE IF i <= Len(content) THEN content[i] ELSE Hole]

(* bytes of the file from offset off to its end *)
Rest(content, off) ==
  IF off >= Len(content) THEN <<>> ELSE [i \in 1..(Len(content) - off) |-> content[off + i]]

(* what one ::read of up to n bytes at offset off can deliver: an error,   *)
(* nothing when n is 0 or the file has no byte left, else 1..n of the      *)
(* bytes that are left                                                     *)
FileReadResults(content, off, n) ==
  {[n |-> 0 - 1, data |-> <<>>]}
  \cup (IF n = 0 \/ off >= Len(content)
        THEN {[n |-> 0, data |-> <<>>]}
        ELSE {[n |-> k, data |-> Slice(content, off, k)] :
                k \in 1..Min(n, Len(content) - off)})

(* lseek(fd, off, whence): EINVAL when the result would be negative *)
lseek(content, pos, off, whence) ==
  LET target == CASE whence = "SEEK_SET" -> off
                  [] whence = "SEEK_CUR" -> pos + off
                  [] whence = "SEEK_END" -> Len(content) + off
  IN IF target < 0 THEN [ret |-> 0 - 1, pos |-> pos] ELSE [ret |-> target, pos |-> target]

RtIdle == [phase |-> "idle", s |-> <<>>, acc |-> <<>>]

(* ---------------------- FileDescriptor: positioning -------------------- *)
(* seek(offset, whence): CheckSystemCall("lseek", lseek(fd_num(), offset, whence)) *)
seek(content, pos, off, whence) ==
  LET r == lseek(content, pos, off, whence)
  IN [raised |-> r.ret < 0, ret |-> r.ret, pos |-> r.pos]

(* curr_offset(): seek(0, SEEK_CUR) *)
curr_offset(content, pos) == seek(content, pos, 0, "SEEK_CUR")

(* inc_offset(offset): seek(offset, SEEK_CUR) *)
inc_offset(content, pos, off) == seek(content, pos, off, "SEEK_CUR")

(* variant: the seek back to the previous offset is missing *)
filesize_no_restore(content, pos) == seek(content, pos, 0, "SEEK_END")

(* filesize(): prev_offset = curr_offset(); fsize = seek(0, SEEK_END);     *)
(* seek(prev_offset, SEEK_SET); return fsize                               *)
filesize(content, pos) ==
  LET p == curr_offset(content, pos)
  IN IF p.raised THEN p
     ELSE LET e == seek(content, p.pos, 0, "SEEK_END")
          IN IF e.raised THEN e
             ELSE LET b == seek(content, e.pos, p.ret, "SEEK_SET")
                  IN [raised |-> b.raised, ret |-> IF b.raised THEN b.ret ELSE e.ret,
                      pos |-> b.pos]

(* variant: only the flag is cleared *)
reset_keeps_offset(content, pos, eof) == [raised |-> FALSE, pos |-> pos, eof |-> FALSE]

(* reset(): seek(0, SEEK_SET); set_eof(false) *)
reset(content, pos, eof) ==
  LET r == seek(content, pos, 0, "SEEK_SET")
  IN IF r.raised THEN [raised |-> TRUE, pos |-> r.pos, eof |-> eof]
     ELSE [raised |-> FALSE, pos |-> r.pos, eof |-> FALSE]

(* throw std::runtime_error( "read_exactly: reached EOF before reaching target" ) *)
UnexpectedEOF == "read_exactly: reached EOF before reaching target"

(* read_exactly(length, fail_silently) with ret accumulated so far: every  *)
(* way it can run, the OS choosing what each ::read delivers; cut marks a  *)
(* return through the fail_silently branch                                 *)
RECURSIVE read_exactly(_, _, _, _, _, _, _)
read_exactly(content, pos, eof, rc, length, fail_silently, ret) ==
  IF Len(ret) >= length
  THEN {[raised |-> "none", cut |-> FALSE, ret |-> ret, pos |-> pos, eof |-> eof, rc |-> rc]}
  ELSE UNION {
         LET r == read(eof, rc, res)
         IN IF r.raised
            THEN {[raised |-> "unix_error", cut |-> FALSE, ret |-> <<>>, pos |-> pos,
                   eof |-> eof, rc |-> rc]}
            ELSE IF r.eof
            THEN IF fail_silently
                 THEN {[raised |-> "none", cut |-> TRUE, ret |-> ret \o r.ret,
                        pos |-> pos + res.n, eof |-> r.eof, rc |-> r.rc]}
                 ELSE {[raised |-> UnexpectedEOF,
                        cut |-> FALSE, ret |-> <<>>, pos |-> pos + res.n, eof |-> r.eof,
                        rc |-> r.rc]}
            ELSE read_exactly(content, pos + res.n, r.eof, r.rc, length, fail_silently,
                              ret \o r.ret)
         : res \in FileReadResults(content, pos, Min(BUFFER_SIZE, length - Len(ret)))}

(* ----------------------------- run_servers ----------------------------- *)
Fingerprints == {"f1", "f2"}
Callers == 1..NumCallers
EXIT_FAILURE == 1

(* vector<string> log_stems: the first NumLogStems of its six entries *)
log_stems ==
  SubSeq(<<"active_streams", "rebuffer_events", "client_buffer", "client_sysinfo",
           "video_sent", "video_acked">>, 1, NumLogStems)

(* an experiment of the configuration: expt["fingerprint"], expt["num_servers"] *)
Experiments == [fingerprint : Fingerprints, num_servers : 0..MaxServers]

RECURSIVE total_servers(_, _)
total_servers(experiments, k) ==
  IF k > Len(experiments) THEN 0
  ELSE experiments[k].num_servers + total_servers(experiments, k + 1)

(* children a run on configuration c starts when every start succeeds *)
total_children(c) ==
  total_servers(c.experiments, 1) * (IF c.enable_logging THEN 1 + Len(log_stems) ELSE 1)

Configs ==
  {c \in [enable_logging : BOOLEAN,
          experiments : UNION {[1..k -> Experiments] : k \in 0..NumExpts}] :
     total_children(c) <= MaxChildren}

(* run(expt_json, {expt_json, fingerprint}): the JSON text of the settings *)
expt_json(fingerprint) == <<"json", fingerprint>>

(* sha256(input): hex digest; different inputs give different digests *)
sha256(input) == <<"sha256", input>>

(* to_string(int): decimal digits, a minus sign in front of a negative value *)
Digit == <<"0", "1", "2", "3", "4", "5", "6", "7", "8", "9">>

RECURSIVE digits(_)
digits(n) == IF n < 10 THEN <<Digit[n + 1]>> ELSE digits(n \div 10) \o <<Digit[(n % 10) + 1]>>

to_string(n) == IF n < 0 THEN <<"-">> \o digits(0 - n) ELSE digits(n)

(* SELECT id FROM puffer_experiment WHERE hash = $1 *)
select_id(table, hash) == {r.id : r \in {x \in table : x.hash = hash}}

(* INSERT INTO puffer_experiment (hash, data) VALUES ($1, $2) RETURNING id: *)
(* the sequence advances also when the UNIQUE constraint rejects the row   *)
insert_json(table, sequence, hash, data) ==
  IF \E r \in table : r.hash = hash
  THEN [raised |-> TRUE, rows |-> table, seq |-> sequence + 1, id |-> 0]
  ELSE [raised |-> FALSE,
        rows |-> table \cup {[id |-> sequence + 1, hash |-> hash, data |-> data]},
        seq |-> sequence + 1, id |-> sequence + 1]

CallIdle == [pc |-> "idle", json |-> <<>>, ret |-> 0]

(* the four arguments of a media server, the four of a log reporter *)
media_server_args(sid, eid) ==
  <<"ws_media_server", "yaml_config", to_string(sid), to_string(eid)>>

log_reporter_args(log_stem, sid) ==
  <<"log_reporter", "yaml_config", <<log_stem, ".conf">>,
    <<log_stem, ".", to_string(sid), ".log">>>>

Child(kind, args, e) ==
  [kind |-> kind, args |-> args, expt |-> e, status |-> "Running", fired |-> 0]

(* the run_as_child calls of one pass of the inner loop, in order *)
server_commands(sid, eid, e, logging) ==
  <<Child("media_server", media_server_args(sid, eid), e)>>
  \o (IF logging
      THEN [k \in 1..Len(log_stems) |->
              Child("log_reporter", log_reporter_args(log_stems[k], sid), e)]
      ELSE <<>>)

(* variant: the id is not advanced *)
next_server_id_stuck(sid) == sid

(* server_id++ *)
next_server_id(sid) == sid + 1

(* the error callbacks: post state=1 for the kind of child that failed, if *)
(* there is an influxdb_client                                             *)
on_failure(kind, logging, posted) ==
  IF kind = "media_server"
  THEN IF logging THEN posted \cup {<<"server_state", 1>>} ELSE posted
  ELSE posted \cup {<<"log_reporter_state", 1>>}

(* variant: main ends with EXIT_SUCCESS *)
main_return_success(status) == 0

(* return proc_manager.wait(): the process exit status keeps the low 8 bits *)
main_return(status) == status % 256

(* ------------------------ ProcessManager (contract) -------------------- *)
Terminal == {"ExitedClean", "ExitedFailed", "Killed"}
Failed == {"ExitedFailed", "Killed"}

(* run_as_child: the child is tracked from its start on *)
run_as_child(tracked, child) == Append(tracked, child)

RECURSIVE run_children(_, _, _)
run_children(tracked, cmds, k) ==
  IF k > Len(cmds) THEN tracked ELSE run_children(run_as_child(tracked, cmds[k]), cmds, k + 1)

(* variant: the callback is skipped *)
reap_silently(child, outcome) == [child EXCEPT !.status = outcome]

(* a termination is handled: the record becomes terminal, and the callback *)
(* is invoked if the child failed or was killed                            *)
reap(child, outcome) ==
  [child EXCEPT !.status = outcome,
                !.fired = IF outcome \in Failed THEN @ + 1 ELSE @]

(* wait() goes on until every tracked child is terminal *)
wait_done(tracked) == \A c \in 1..Len(tracked) : tracked[c].status \in Terminal

(* the aggregate wait() returns: zero, or some non-zero status *)
aggregate(tracked) ==
  IF \E c \in 1..Len(tracked) : tracked[c].status \in Failed THEN {1, 255} ELSE {0}

(* run_servers before main() has run, the table empty *)
OrchStart ==
  /\ pc = "start"
  /\ server_id = 0
  /\ expt = 1
  /\ expt_id = 0
  /\ server_i = 0
  /\ children = <<>>
  /\ posts = {}
  /\ wait_ret = 0
  /\ exit_status = 0
  /\ rows = {}
  /\ seq = 0
  /\ call = [c \in Callers |-> CallIdle]
  /\ returned = {}

OrchUnused ==
  /\ config = [enable_logging |-> FALSE, experiments |-> <<>>]
  /\ OrchStart

(* ------------------------------ actions -------------------------------- *)
(* FileDescriptor( const int fd ): the OS has just handed out handle h *)
Construct(d, h, fcntlOk) ==
  /\ dstate[d] = "unborn"
  /\ h \notin open
  /\ open' = open \cup {h}
  /\ closeCalls' = [closeCalls EXCEPT ![h] = 0]
  /\ IF fcntlOk
     THEN /\ dstate' = [dstate EXCEPT ![d] = "alive"]
          /\ fd_' = [fd_ EXCEPT ![d] = h]
     ELSE UNCHANGED <<dstate, fd_>>
  /\ last' = Result("construct", d, 0, ~fcntlOk, FALSE, 0)
  /\ trace' = <<>>
  /\ UNCHANGED <<eof_, read_count_, write_count_, epollers_, estate, reg>>
  /\ UNCHANGED <<ioVars, orchVars>>

(* FileDescriptor( FileDescriptor && other ): the moved-from unordered_map *)
(* is left empty, other's EOF flag and counters are left as they were      *)
MoveConstruct(d, other) ==
  /\ dstate[d] = "unborn"
  /\ dstate[other] = "alive"
  /\ dstate' = [dstate EXCEPT ![d] = "alive"]
  /\ fd_' = [fd_ EXCEPT ![d] = fd_[other], ![other] = Invalid]
  /\ eof_' = [eof_ EXCEPT ![d] = eof_[other]]
  /\ read_count_' = [read_count_ EXCEPT ![d] = read_count_[other]]
  /\ write_count_' = [write_count_ EXCEPT ![d] = write_count_[other]]
  /\ epollers_' = [epollers_ EXCEPT ![d] = epollers_[other], ![other] = NoEpollers]
  /\ last' = Result("move", d, other, FALSE, FALSE, 0)
  /\ trace' = <<>>
  /\ UNCHANGED <<estate, reg, open, closeCalls>>
  /\ UNCHANGED <<ioVars, orchVars>>

(* explicit close() *)
Close(d, order, dfail, outcome) ==
  /\ dstate[d] = "alive"
  /\ fd_[d] >= 0 => closeCalls[fd_[d]] < MaxCloseCalls
  /\ LET c == close(d, order, dfail, outcome)
     IN /\ fd_' = [fd_ EXCEPT ![d] = c.fd]
        /\ reg' = c.regs
        /\ open' = c.open
        /\ closeCalls' = c.calls
        /\ trace' = c.tr
        /\ last' = Result("close", d, 0, c.raised, FALSE, 0)
  /\ UNCHANGED <<dstate, eof_, read_count_, write_count_, epollers_, estate>>
  /\ UNCHANGED <<ioVars, orchVars>>

(* close() on d against everything it can meet: an iteration order of the *)
(* map, live Epollers of the map that throw, an outcome of ::close         *)
CloseCall(d) ==
  \E order \in Orders(Keys(d)), dfail \in SUBSET Attached(d),
     outcome \in CloseOutcomes(fd_[d]) : Close(d, order, dfail, outcome)

(* ~FileDescriptor(); the object and its members are gone afterwards *)
Destroy(d, order, dfail, outcome) ==
  /\ dstate[d] = "alive"
  /\ LET c == close(d, order, dfail, outcome)
     IN /\ reg' = c.regs
        /\ open' = c.open
        /\ closeCalls' = c.calls
        /\ trace' = c.tr
        /\ last' = Result("destroy", d, 0, destructor_raises(c.raised), c.raised, 0)
  /\ dstate' = [dstate EXCEPT ![d] = "destroyed"]
  /\ fd_' = [fd_ EXCEPT ![d] = Invalid]
  /\ eof_' = [eof_ EXCEPT ![d] = FALSE]
  /\ read_count_' = [read_count_ EXCEPT ![d] = 0]
  /\ write_count_' = [write_count_ EXCEPT ![d] = 0]
  /\ epollers_' = [epollers_ EXCEPT ![d] = NoEpollers]
  /\ UNCHANGED estate
  /\ UNCHANGED <<ioVars, orchVars>>

DestructorCall(d) ==
  \E order \in Orders(Keys(d)), dfail \in SUBSET Attached(d),
     outcome \in CloseOutcomes(fd_[d]) : Destroy(d, order, dfail, outcome)

(* attach_epoller(shared_ptr<Epoller> &&) *)
Attach(d, e) ==
  /\ dstate[d] = "alive"
  /\ estate[e] = "live"
  /\ epollers_' = [epollers_ EXCEPT ![d] = attach_epoller(epollers_[d], e)]
  /\ last' = IF epollers_[d][fd_num(e)] # None
             THEN Warning("attach")
             ELSE Result("attach", d, e, FALSE, FALSE, 0)
  /\ UNCHANGED <<dstate, fd_, eof_, read_count_, write_count_, estate, reg, open,
                 closeCalls>>
  /\ trace' = <<>>
  /\ UNCHANGED <<ioVars, orchVars>>

(* detach_epoller(const int epoller_fd) *)
Detach(d, k) ==
  /\ dstate[d] = "alive"
  /\ epollers_' = [epollers_ EXCEPT ![d] = detach_epoller(epollers_[d], k)]
  /\ last' = IF epollers_[d][k] = None
             THEN Warning("detach")
             ELSE Result("detach", d, k, FALSE, FALSE, 0)
  /\ UNCHANGED <<dstate, fd_, eof_, read_count_, write_count_, estate, reg, open,
                 closeCalls>>
  /\ trace' = <<>>
  /\ UNCHANGED <<ioVars, orchVars>>

(* an Epoller is created; its own handle value may be one a dead Epoller had *)
EpollerCreate(e) ==
  /\ estate[e] = "unborn"
  /\ \A o \in Epollers : estate[o] = "live" => fd_num(o) # fd_num(e)
  /\ estate' = [estate EXCEPT ![e] = "live"]
  /\ last' = Result("epoller_create", 0, 0, FALSE, FALSE, 0)
  /\ UNCHANGED <<dstate, fd_, eof_, read_count_, write_count_, epollers_, reg, open,
                 closeCalls>>
  /\ trace' = <<>>
  /\ UNCHANGED <<ioVars, orchVars>>

(* the last shared_ptr to an Epoller goes away *)
EpollerDestroy(e) ==
  /\ estate[e] = "live"
  /\ estate' = [estate EXCEPT ![e] = "dead"]
  /\ reg' = [reg EXCEPT ![e] = {}]
  /\ last' = Result("epoller_destroy", 0, 0, FALSE, FALSE, 0)
  /\ UNCHANGED <<dstate, fd_, eof_, read_count_, write_count_, epollers_, open,
                 closeCalls>>
  /\ trace' = <<>>
  /\ UNCHANGED <<ioVars, orchVars>>

(* a caller registers descriptor d with an Epoller e it has attached to d *)
Register(e, d) ==
  /\ estate[e] = "live"
  /\ dstate[d] = "alive"
  /\ fd_[d] \in open
  /\ epollers_[d][fd_num(e)] = e
  /\ reg' = register(reg, e, fd_[d])
  /\ last' = Result("register", 0, 0, FALSE, FALSE, 0)
  /\ UNCHANGED <<dstate, fd_, eof_, read_count_, write_count_, epollers_, estate, open,
                 closeCalls>>
  /\ trace' = <<>>
  /\ UNCHANGED <<ioVars, orchVars>>

(* a caller deregisters descriptor d from Epoller e *)
Deregister(e, d) ==
  /\ estate[e] = "live"
  /\ dstate[d] = "alive"
  /\ fd_[d] >= 0
  /\ reg' = deregister(reg, e, fd_[d])
  /\ last' = Result("deregister", 0, 0, FALSE, FALSE, 0)
  /\ UNCHANGED <<dstate, fd_, eof_, read_count_, write_count_, epollers_, estate, open,
                 closeCalls>>
  /\ trace' = <<>>
  /\ UNCHANGED <<ioVars, orchVars>>

(* read(limit) *)
Read(d, limit, res) ==
  /\ dstate[d] = "alive"
  /\ read_count_[d] < MaxCount
  /\ LET r == read(eof_[d], read_count_[d], res)
     IN /\ eof_' = [eof_ EXCEPT ![d] = r.eof]
        /\ read_count_' = [read_count_ EXCEPT ![d] = r.rc]
        /\ last' = Result("read", d, limit, r.raised, FALSE, r.ret)
  /\ trace' = <<>>
  /\ UNCHANGED <<dstate, fd_, write_count_, epollers_, estate, reg, open, closeCalls>>
  /\ UNCHANGED <<ioVars, orchVars>>

ReadCall(d, limit) ==
  \E res \in ReadResults(fd_[d], Min(BUFFER_SIZE, limit)) : Read(d, limit, res)

(* write(buffer, write_all) *)
Write(d, buffer, write_all, o) ==
  /\ dstate[d] = "alive"
  /\ write_count_[d] < MaxCount
  /\ write_count_' = [write_count_ EXCEPT ![d] = o.wc]
  /\ wlog' = o.calls
  /\ last' = Result("write", d, <<buffer, write_all>>, o.raised # "none", FALSE,
                    <<o.raised, o.it>>)
  /\ file' = WriteAt(file, offset, Written(o.calls, 1))
  /\ offset' = offset + Len(Written(o.calls, 1))
  /\ rt' = IF file = <<>> /\ offset = 0 /\ write_all /\ o.raised = "none"
            THEN [phase |-> "written", s |-> buffer, acc |-> <<>>]
            ELSE RtIdle
  /\ trace' = <<>>
  /\ UNCHANGED <<dstate, fd_, eof_, read_count_, epollers_, estate, reg, open, closeCalls>>
  /\ UNCHANGED orchVars

(* read(limit) on the file *)
ReadFile(d, limit, res) ==
  /\ dstate[d] = "alive"
  /\ read_count_[d] < MaxReads
  /\ LET r == read(eof_[d], read_count_[d], res)
     IN /\ eof_' = [eof_ EXCEPT ![d] = r.eof]
        /\ read_count_' = [read_count_ EXCEPT ![d] = r.rc]
        /\ offset' = IF r.raised THEN offset ELSE offset + res.n
        /\ last' = Result("read", d, limit, r.raised, FALSE, r.ret)
        /\ rt' = IF rt.phase = "reading" /\ limit > 0 /\ ~r.raised
                  THEN [rt EXCEPT !.acc = @ \o r.ret,
                                  !.phase = IF r.eof THEN "done" ELSE "reading"]
                  ELSE RtIdle
  /\ wlog' = <<>>
  /\ trace' = <<>>
  /\ UNCHANGED <<dstate, fd_, write_count_, epollers_, estate, reg, open, closeCalls, file>>
  /\ UNCHANGED orchVars

ReadFileCall(d, limit) ==
  \E res \in FileReadResults(file, offset, Min(BUFFER_SIZE, limit)) : ReadFile(d, limit, res)

(* read_exactly(length, fail_silently) on the file *)
ReadExactly(d, length, fail_silently, o) ==
  /\ dstate[d] = "alive"
  /\ read_count_[d] < MaxReads
  /\ eof_' = [eof_ EXCEPT ![d] = o.eof]
  /\ read_count_' = [read_count_ EXCEPT ![d] = o.rc]
  /\ offset' = o.pos
  /\ last' = Result("read_exactly", d, <<length, fail_silently>>, o.raised # "none", o.cut,
                    <<o.raised, o.ret>>)
  /\ rt' = RtIdle
  /\ wlog' = <<>>
  /\ trace' = <<>>
  /\ UNCHANGED <<dstate, fd_, write_count_, epollers_, estate, reg, open, closeCalls, file>>
  /\ UNCHANGED orchVars

ReadExactlyCall(d, length, fail_silently) ==
  \E o \in read_exactly(file, offset, eof_[d], read_count_[d], length, fail_silently, <<>>) :
     ReadExactly(d, length, fail_silently, o)

(* seek(offset, whence); positions are explored up to one past MaxLen *)
Seek(d, off, whence) ==
  /\ dstate[d] = "alive"
  /\ LET r == seek(file, offset, off, whence)
     IN /\ r.pos <= MaxLen + 1
        /\ offset' = r.pos
        /\ last' = Result("seek", d, <<off, whence>>, r.raised, FALSE, r.ret)
  /\ rt' = RtIdle
  /\ wlog' = <<>>
  /\ trace' = <<>>
  /\ UNCHANGED <<dstate, fd_, eof_, read_count_, write_count_, epollers_, estate, reg, open,
                 closeCalls, file>>
  /\ UNCHANGED orchVars

(* filesize() *)
Filesize(d) ==
  /\ dstate[d] = "alive"
  /\ LET r == filesize(file, offset)
     IN /\ offset' = r.pos
        /\ last' = Result("filesize", d, 0, r.raised, FALSE, r.ret)
  /\ rt' = RtIdle
  /\ wlog' = <<>>
  /\ trace' = <<>>
  /\ UNCHANGED <<dstate, fd_, eof_, read_count_, write_count_, epollers_, estate, reg, open,
                 closeCalls, file>>
  /\ UNCHANGED orchVars

(* reset() *)
Reset(d) ==
  /\ dstate[d] = "alive"
  /\ LET r == reset(file, offset, eof_[d])
     IN /\ offset' = r.pos
        /\ eof_' = [eof_ EXCEPT ![d] = r.eof]
        /\ last' = Result("reset", d, 0, r.raised, FALSE, 0)
        /\ rt' = IF rt.phase = "written" /\ ~r.raised
                  THEN [rt EXCEPT !.phase = "reading"]
                  ELSE RtIdle
  /\ wlog' = <<>>
  /\ trace' = <<>>
  /\ UNCHANGED <<dstate, fd_, read_count_, write_count_, epollers_, estate, reg, open,
                 closeCalls, file>>
  /\ UNCHANGED orchVars

Init ==
  /\ dstate = [d \in Descs |-> "unborn"]
  /\ fd_ = [d \in Descs |-> Invalid]
  /\ eof_ = [d \in Descs |-> FALSE]
  /\ read_count_ = [d \in Descs |-> 0]
  /\ write_count_ = [d \in Descs |-> 0]
  /\ epollers_ = [d \in Descs |-> NoEpollers]
  /\ estate = [e \in Epollers |-> "unborn"]
  /\ reg = [e \in Epollers |-> {}]
  /\ open = {}
  /\ closeCalls = [h \in Handles |-> 0]
  /\ trace = <<>>
  /\ last = Result("init", 0, 0, FALSE, FALSE, 0)
  /\ wlog = <<>>
  /\ file = <<>>
  /\ offset = 0
  /\ rt = RtIdle
  /\ OrchUnused

Next ==
  \/ \E d \in Descs, h \in Handles, ok \in BOOLEAN : Construct(d, h, ok)
  \/ \E d, other \in Descs : MoveConstruct(d, other)
  \/ \E d \in Descs : CloseCall(d)
  \/ \E d \in Descs : DestructorCall(d)
  \/ \E d \in Descs, e \in Epollers : Attach(d, e)
  \/ \E d \in Descs, k \in EpollFds : Detach(d, k)
  \/ \E e \in Epollers : EpollerCreate(e)
  \/ \E e \in Epollers : EpollerDestroy(e)
  \/ \E e \in Epollers, d \in Descs : Register(e, d)
  \/ \E e \in Epollers, d \in Descs : Deregister(e, d)
  \/ \E d \in Descs : ReadCall(d, 0)

Spec == Init /\ [][Next]_vars

(* a constructed descriptor on an open handle, used for I/O only *)
InitIO ==
  /\ dstate = [d \in Descs |-> IF d = 1 THEN "alive" ELSE "unborn"]
  /\ fd_ = [d \in Descs |-> IF d = 1 THEN 3 ELSE Invalid]
  /\ eof_ = [d \in Descs |-> FALSE]
  /\ read_count_ = [d \in Descs |-> 0]
  /\ write_count_ = [d \in Descs |-> 0]
  /\ epollers_ = [d \in Descs |-> NoEpollers]
  /\ estate = [e \in Epollers |-> "unborn"]
  /\ reg = [e \in Epollers |-> {}]
  /\ open = {3}
  /\ closeCalls = [h \in Handles |-> 0]
  /\ trace = <<>>
  /\ last = Result("init", 0, 0, FALSE, FALSE, 0)
  /\ wlog = <<>>
  /\ file = <<>>
  /\ offset = 0
  /\ rt = RtIdle
  /\ OrchUnused

WriteCall(d, buffer, write_all) ==
  \E o \in write(fd_[d], buffer, write_all, 0, write_count_[d], <<>>, MaxLen + 1) :
     Write(d, buffer, write_all, o)

Whences == {"SEEK_SET", "SEEK_CUR", "SEEK_END"}

NextIO ==
  \E buffer \in Buffers, write_all \in BOOLEAN : WriteCall(1, buffer, write_all)

SpecIO == InitIO /\ [][NextIO]_vars

(* write(buffer, write_all) by a caller that writes to the file while it is empty *)
WriteToEmpty(d, buffer, write_all) ==
  /\ file = <<>>
  /\ offset = 0
  /\ WriteCall(d, buffer, write_all)

(* writing to, rewinding and reading an initially empty file *)
NextRT ==
  \/ \E buffer \in Buffers, write_all \in BOOLEAN : WriteToEmpty(1, buffer, write_all)
  \/ \E limit \in 0..(BUFFER_SIZE + 1) : ReadFileCall(1, limit)
  \/ Reset(1)

SpecRT == InitIO /\ [][NextRT]_vars

(* a constructed descriptor on a file that holds some bytes already *)
InitFile ==
  /\ dstate = [d \in Descs |-> IF d = 1 THEN "alive" ELSE "unborn"]
  /\ fd_ = [d \in Descs |-> IF d = 1 THEN 3 ELSE Invalid]
  /\ eof_ = [d \in Descs |-> FALSE]
  /\ read_count_ = [d \in Descs |-> 0]
  /\ write_count_ = [d \in Descs |-> 0]
  /\ epollers_ = [d \in Descs |-> NoEpollers]
  /\ estate = [e \in Epollers |-> "unborn"]
  /\ reg = [e \in Epollers |-> {}]
  /\ open = {3}
  /\ closeCalls = [h \in Handles |-> 0]
  /\ trace = <<>>
  /\ last = Result("init", 0, 0, FALSE, FALSE, 0)
  /\ wlog = <<>>
  /\ file \in Buffers
  /\ offset = 0
  /\ rt = RtIdle
  /\ OrchUnused

(* reading and positioning on that file *)
NextFile ==
  \/ \E limit \in 0..(BUFFER_SIZE + 1) : ReadFileCall(1, limit)
  \/ \E length \in 0..(MaxLen + 1), fail_silently \in BOOLEAN :
        ReadExactlyCall(1, length, fail_silently)
  \/ \E off \in (0 - 1)..(MaxLen + 1), whence \in Whences : Seek(1, off, whence)
  \/ Filesize(1)
  \/ Reset(1)

SpecFile == InitFile /\ [][NextFile]_vars

(* --------------------------- run_servers: steps ------------------------ *)
fdVars == <<lifeVars, last, ioVars>>

(* no FileDescriptor has been constructed *)
FdUnused ==
  /\ dstate = [d \in Descs |-> "unborn"]
  /\ fd_ = [d \in Descs |-> Invalid]
  /\ eof_ = [d \in Descs |-> FALSE]
  /\ read_count_ = [d \in Descs |-> 0]
  /\ write_count_ = [d \in Descs |-> 0]
  /\ epollers_ = [d \in Descs |-> NoEpollers]
  /\ estate = [e \in Epollers |-> "unborn"]
  /\ reg = [e \in Epollers |-> {}]
  /\ open = {}
  /\ closeCalls = [h \in Handles |-> 0]
  /\ trace = <<>>
  /\ last = Result("init", 0, 0, FALSE, FALSE, 0)
  /\ wlog = <<>>
  /\ file = <<>>
  /\ offset = 0
  /\ rt = RtIdle

(* retrieve_expt_id returns id; how tells which path it took *)
Finish(c, id, how) ==
  /\ call' = [call EXCEPT ![c] = [pc |-> "done", json |-> call[c].json, ret |-> id]]
  /\ returned' = returned \cup {[json |-> call[c].json, id |-> id, how |-> how]}

(* a process calls retrieve_expt_id(json_str) *)
LookupStart(c, json_str) ==
  /\ call[c].pc = "idle"
  /\ call' = [call EXCEPT ![c] = [pc |-> "select", json |-> json_str, ret |-> 0]]
  /\ UNCHANGED <<config, pc, server_id, expt, expt_id, server_i, children, posts, wait_ret,
                 exit_status, rows, seq, returned>>
  /\ UNCHANGED fdVars

(* lines 46-73: hash, connect, create the table, prepare, select; return   *)
(* the id if a row with the hash exists                                    *)
LookupSelect(c) ==
  /\ call[c].pc = "select"
  /\ LET r == select_id(rows, sha256(call[c].json))
     IN IF Cardinality(r) = 1
        THEN Finish(c, CHOOSE id \in r : TRUE, "selected")
        ELSE /\ call' = [call EXCEPT ![c].pc = "insert"]
             /\ UNCHANGED returned
  /\ UNCHANGED <<config, pc, server_id, expt, expt_id, server_i, children, posts, wait_ret,
                 exit_status, rows, seq>>
  /\ UNCHANGED fdVars

(* lines 76-80: insert, commit, return the new id; a row with the hash     *)
(* that was committed meanwhile makes the insert throw, and the catch      *)
(* block of line 81 leads to return -1                                     *)
LookupInsert(c) ==
  /\ call[c].pc = "insert"
  /\ LET ins == insert_json(rows, seq, sha256(call[c].json), call[c].json)
     IN /\ rows' = ins.rows
        /\ seq' = ins.seq
        /\ IF ins.raised THEN Finish(c, 0 - 1, "conflict") ELSE Finish(c, ins.id, "inserted")
  /\ UNCHANGED <<config, pc, server_id, expt, expt_id, server_i, children, posts, wait_ret,
                 exit_status>>
  /\ UNCHANGED fdVars

(* any statement throws because the database cannot be reached: lines      *)
(* 81-85, return -1                                                        *)
LookupThrow(c) ==
  /\ call[c].pc \in {"select", "insert"}
  /\ Finish(c, 0 - 1, "unreachable")
  /\ UNCHANGED <<config, pc, server_id, expt, expt_id, server_i, children, posts, wait_ret,
                 exit_status, rows, seq>>
  /\ UNCHANGED fdVars

(* the caller has its answer *)
LookupDone(c) ==
  /\ call[c].pc = "done"
  /\ call' = [call EXCEPT ![c] = CallIdle]
  /\ UNCHANGED <<config, pc, server_id, expt, expt_id, server_i, children, posts, wait_ret,
                 exit_status, rows, seq, returned>>
  /\ UNCHANGED fdVars

(* main, lines 90-137: abort() without argv[0], usage and EXIT_FAILURE     *)
(* unless there is exactly one argument; loading the configuration or      *)
(* creating the InfluxDB client may throw                                  *)
MainStart(argc, loaded) ==
  /\ pc = "start"
  /\ pc' = IF argc < 1 THEN "aborted"
           ELSE IF argc # 2 THEN "usage"
           ELSE IF ~loaded THEN "aborted" ELSE "expt"
  /\ exit_status' = IF argc >= 1 /\ argc # 2 THEN EXIT_FAILURE ELSE exit_status
  /\ server_id' = 0
  /\ expt' = 1
  /\ UNCHANGED <<config, expt_id, server_i, children, posts, wait_ret, rows, seq, call,
                 returned>>
  /\ UNCHANGED fdVars

(* head of the outer loop, lines 138-147: run expt_json.py and call        *)
(* retrieve_expt_id; after the last experiment lines 196-204 post the      *)
(* steady state and main goes on to wait()                                 *)
MainExpt(ran) ==
  /\ pc = "expt"
  /\ IF expt > Len(config.experiments)
     THEN /\ posts' = IF config.enable_logging
                       THEN posts \cup {<<"server_state", 0>>, <<"log_reporter_state", 0>>}
                       ELSE posts
          /\ pc' = "wait"
          /\ UNCHANGED call
     ELSE IF ~ran
     THEN /\ pc' = "aborted"
          /\ UNCHANGED <<posts, call>>
     ELSE /\ pc' = "lookup"
          /\ call' = [call EXCEPT ![1] =
                        [pc |-> "select",
                         json |-> expt_json(config.experiments[expt].fingerprint),
                         ret |-> 0]]
          /\ UNCHANGED posts
  /\ UNCHANGED <<config, server_id, expt, expt_id, server_i, children, wait_ret, exit_status,
                 rows, seq, returned>>
  /\ UNCHANGED fdVars

(* lines 147-153: expt_id is what retrieve_expt_id returned; i = 0 *)
MainTakeId ==
  /\ pc = "lookup"
  /\ call[1].pc = "done"
  /\ expt_id' = call[1].ret
  /\ server_i' = 0
  /\ call' = [call EXCEPT ![1] = CallIdle]
  /\ pc' = "servers"
  /\ UNCHANGED <<config, server_id, expt, children, posts, wait_ret, exit_status, rows, seq,
                 returned>>
  /\ UNCHANGED fdVars

(* one pass of the inner loop, lines 153-192; the failAt-th run_as_child   *)
(* throws (0: none does), which ends main                                  *)
MainServer(failAt) ==
  /\ pc = "servers"
  /\ server_i < config.experiments[expt].num_servers
  /\ LET sid == next_server_id(server_id)
         cmds == server_commands(sid, expt_id, expt, config.enable_logging)
     IN /\ failAt <= Len(cmds)
        /\ server_id' = sid
        /\ IF failAt = 0
           THEN /\ children' = run_children(children, cmds, 1)
                /\ server_i' = server_i + 1
                /\ pc' = "servers"
           ELSE /\ children' = run_children(children, SubSeq(cmds, 1, failAt - 1), 1)
                /\ server_i' = server_i
                /\ pc' = "aborted"
  /\ UNCHANGED <<config, expt, expt_id, posts, wait_ret, exit_status, rows, seq, call,
                 returned>>
  /\ UNCHANGED fdVars

(* the inner loop ends: next experiment *)
MainServersDone ==
  /\ pc = "servers"
  /\ server_i >= config.experiments[expt].num_servers
  /\ expt' = expt + 1
  /\ pc' = "expt"
  /\ UNCHANGED <<config, server_id, expt_id, server_i, children, posts, wait_ret,
                 exit_status, rows, seq, call, returned>>
  /\ UNCHANGED fdVars

(* inside wait(): the termination of child c is handled *)
Reap(c, outcome) ==
  /\ pc = "wait"
  /\ c <= Len(children)
  /\ children[c].status = "Running"
  /\ children' = [children EXCEPT ![c] = reap(@, outcome)]
  /\ posts' = IF outcome \in Failed
               THEN on_failure(children[c].kind, config.enable_logging, posts)
               ELSE posts
  /\ UNCHANGED <<config, pc, server_id, expt, expt_id, server_i, wait_ret, exit_status, rows,
                 seq, call, returned>>
  /\ UNCHANGED fdVars

(* line 206: wait() returns and main returns what it returned *)
WaitReturn(status) ==
  /\ pc = "wait"
  /\ wait_done(children)
  /\ status \in aggregate(children)
  /\ wait_ret' = status
  /\ exit_status' = main_return(status)
  /\ pc' = "exited"
  /\ UNCHANGED <<config, server_id, expt, expt_id, server_i, children, posts, rows, seq,
                 call, returned>>
  /\ UNCHANGED fdVars

InitOrch ==
  /\ FdUnused
  /\ config \in Configs
  /\ OrchStart

NextOrch ==
  \/ \E argc \in 0..3, loaded \in BOOLEAN : MainStart(argc, loaded)
  \/ \E ran \in BOOLEAN : MainExpt(ran)
  \/ LookupSelect(1)
  \/ LookupInsert(1)
  \/ LookupThrow(1)
  \/ MainTakeId
  \/ \E failAt \in 0..(1 + NumLogStems) : MainServer(failAt)
  \/ MainServersDone
  \/ \E c \in 1..MaxChildren, outcome \in Terminal : Reap(c, outcome)
  \/ \E status \in {0, 1, 255} : WaitReturn(status)

SpecOrch == InitOrch /\ [][NextOrch]_vars

(* processes that call retrieve_expt_id against the same database *)
InitLookup ==
  /\ FdUnused
  /\ OrchUnused

NextLookup ==
  \/ \E c \in Callers, f \in Fingerprints : LookupStart(c, expt_json(f))
  \/ \E c \in Callers : LookupSelect(c)
  \/ \E c \in Callers : LookupInsert(c)
  \/ \E c \in Callers : LookupThrow(c)
  \/ \E c \in Callers : LookupDone(c)

SpecLookup == InitLookup /\ [][NextLookup]_vars

(* ======================= properties of the claims ====================== *)
IsClose(r) == r.op \in {"close", "destroy"}

(* the ::close call of a close()/destructor run, if it got that far *)
ReleaseIssued(tr) == Len(tr) > 0 /\ tr[Len(tr)][1] = "close"

(* Epoller e was told to stop watching h before the release was issued *)
DeregisteredFirst(tr, e, h) ==
  \E i \in 1..Len(tr) : tr[i] = <<"deregister", e, h, "ok">> /\ i < Len(tr)

NoCallFor(tr, e) == \A i \in 1..Len(tr) : ~(tr[i][1] = "deregister" /\ tr[i][2] = e)

LastCallFailed(tr) == Len(tr) > 0 /\ tr[Len(tr)][4] = "fail"

C2_CloseIdempotent ==
  /\ \A h \in Handles : closeCalls[h] <= 1
  /\ (last.op = "close" /\ last.raised /\ ReleaseIssued(trace))
       => closeCalls[trace[Len(trace)][3]] = 1

(* C3: after a move the source is invalid and the destination holds the    *)
(* handle, EOF flag and counters; at most one descriptor holds a given     *)
(* valid handle; a closed or moved-from descriptor is invalid; and each    *)
(* handle is released at most once.                                        *)
C3_Ownership ==
  /\ last.op = "move" =>
       /\ fd_[last.arg] = Invalid
       /\ eof_[last.d] = eof_[last.arg]
       /\ read_count_[last.d] = read_count_[last.arg]
       /\ write_count_[last.d] = write_count_[last.arg]
       /\ epollers_[last.arg] = NoEpollers
  /\ \A d1, d2 \in Descs :
       (d1 # d2 /\ dstate[d1] = "alive" /\ dstate[d2] = "alive" /\ fd_[d1] # Invalid)
         => fd_[d1] # fd_[d2]
  /\ (last.op = "close" /\ ~last.raised) => fd_[last.d] = Invalid
  /\ \A h \in Handles : closeCalls[h] <= 1

C6_OnlyMappedAreDeregistered ==
  [][\A d \in Descs :
       (IsClose(last') /\ last'.d = d) =>
          \A i \in 1..Len(trace') :
             trace'[i][1] = "deregister" =>
                /\ trace'[i][2] \in Attached(d)
                /\ trace'[i][3] = fd_[d]]_vars

C6_Witness ==
  /\ IsClose(last)
  /\ ReleaseIssued(trace)
  /\ \E e \in Epollers :
        /\ estate[e] = "live"
        /\ trace[Len(trace)][3] \in reg[e]
        /\ NoCallFor(trace, e)

(* C7: in every reachable state, also after close() and after being        *)
(* moved-from, the descriptor is registered with the multiplexer of every  *)
(* mapping entry whose weak reference is still live.                       *)
C7_LiveEntriesAreRegistered ==
  \A d \in Descs : dstate[d] = "alive" =>
     \A e \in Attached(d) : fd_[d] \in reg[e]

(* C8: an attach with a key already in the mapping and a detach with a key *)
(* not in it leave the mapping, the handle, the EOF flag, the counters and *)
(* the multiplexers' registrations unchanged, and do not raise.            *)
C8_WarningChangesNothing ==
  [][(last'.op \in {"attach", "detach"} /\ last'.warned) =>
       /\ ~last'.raised
       /\ UNCHANGED <<dstate, fd_, eof_, read_count_, write_count_, epollers_, estate,
                      reg, open, closeCalls>>]_vars

C8_Witness ==
  /\ last.op = "attach" /\ last.warned
  /\ \E d \in Descs : Attached(d) # {} /\ fd_[d] \in open

(* C9: a failure of the release call or of a deregister call inside        *)
(* close() reaches the caller of an explicit close(), while the destructor *)
(* logs it and completes without raising.                                  *)
C9_DestructorNeverRaises ==
  /\ last.op = "destroy" => (~last.raised /\ (last.warned <=> LastCallFailed(trace)))
  /\ last.op = "close" => (last.raised <=> LastCallFailed(trace))

C9_Witness ==
  /\ last.op = "destroy"
  /\ LastCallFailed(trace)
  /\ ~last.raised

(* C10: on a non-empty buffer, when every OS write takes at least one      *)
(* byte, write with write_all = false issues exactly one OS write and      *)
(* returns the position just past what it took; with write_all = true it   *)
(* repeats OS writes, each at the cursor the previous one left, ends, and  *)
(* returns the end of the buffer with every byte written once, in order.   *)
EveryWriteTookBytes(log) == \A i \in 1..Len(log) : log[i][3] >= 1

C10_Write ==
  (last.op = "write" /\ Len(last.arg[1]) > 0 /\ EveryWriteTookBytes(wlog)) =>
     /\ last.ret[1] = "none"
     /\ Len(wlog) >= 1
     /\ wlog[1][1] = 0
     /\ \A i \in 1..(Len(wlog) - 1) : wlog[i + 1][1] = wlog[i][1] + wlog[i][3]
     /\ ~last.arg[2] => (Len(wlog) = 1 /\ last.ret[2] = wlog[1][3])
     /\ last.arg[2] => (last.ret[2] = Len(last.arg[1]) /\ Written(wlog, 1) = last.arg[1])

C10_Witness ==
  /\ last.op = "write" /\ last.arg[2]
  /\ last.ret[1] = "none"
  /\ Len(wlog) >= 2
  /\ Written(wlog, 1) = last.arg[1]

(* C11: write on an empty buffer fails with "nothing to write" for both    *)
(* values of write_all without any OS write; an OS write that takes zero   *)
(* bytes ends the call at once with "write returned 0", is the last OS     *)
(* write of the call, and is not counted by the write counter.             *)
C11_WriteErrors ==
  [][last'.op = "write" =>
       /\ Len(last'.arg[1]) = 0 =>
            /\ last'.raised /\ last'.ret[1] = "nothing to write"
            /\ wlog' = <<>>
            /\ write_count_' = write_count_
       /\ \A i \in 1..Len(wlog') :
            wlog'[i][3] = 0 =>
              /\ i = Len(wlog')
              /\ last'.raised /\ last'.ret[1] = "write returned 0"
              /\ write_count_'[last'.d] = write_count_[last'.d] + (i - 1)]_vars

C11_Witness ==
  /\ last.op = "write" /\ last.arg[2]
  /\ Len(wlog) >= 2
  /\ wlog[Len(wlog)][3] = 0
  /\ last.ret[1] = "write returned 0"

(* C12: read_exactly(n, fail_silently) on a source that has only k < n     *)
(* bytes left before end-of-file raises the unexpected-EOF error when      *)
(* fail_silently is false and returns exactly those k bytes when it is     *)
(* true; and a return that fail_silently did not cut short has length n.   *)
(* (Runs in which an OS read itself fails are left aside.)                 *)
C12_ReadExactlyEarlyEof ==
  [][(last'.op = "read_exactly" /\ last'.ret[1] # "unix_error") =>
       /\ Len(Rest(file, offset)) < last'.arg[1] =>
            IF last'.arg[2]
            THEN ~last'.raised /\ last'.ret[2] = Rest(file, offset)
            ELSE last'.raised /\ last'.ret[1] = UnexpectedEOF
       /\ (~last'.raised /\ ~last'.warned) => Len(last'.ret[2]) = last'.arg[1]]_vars

C14_FilesizeKeepsOffset ==
  [][last'.op = "filesize" =>
       /\ ~last'.raised
       /\ last'.ret = Len(file)
       /\ curr_offset(file', offset').ret = curr_offset(file, offset).ret
       /\ file' = file]_vars

C14_Witness ==
  /\ last.op = "filesize"
  /\ Len(file) > 0
  /\ offset > Len(file)
  /\ last.ret = Len(file)

IsMediaServer(child) == child.kind = "media_server"

(* the media servers among the tracked children, in the order they were started *)
MediaServers == SelectSeq(children, IsMediaServer)

(* main has started every child the configuration asks for *)
AllSpawned == pc \in {"wait", "exited"}

(* ids 1, 2, ... in the order of starting; one experiment id per experiment *)
ServerIdsIncrease ==
  /\ Len(MediaServers) = total_servers(config.experiments, 1)
  /\ \A k \in 1..Len(MediaServers) : MediaServers[k].args[3] = to_string(k)
  /\ \A k, l \in 1..Len(MediaServers) :
       MediaServers[k].expt = MediaServers[l].expt
         => MediaServers[k].args[4] = MediaServers[l].args[4]

(* C15 as claimed: once main has started its children, the supervisor      *)
(* tracks exactly as many worker processes as the configuration's worker   *)
(* counts add up to, invoked with server ids 1, 2, ... increasing by one   *)
(* and the same experiment id within an experiment.                        *)
C15_ExactlyNTracked ==
  AllSpawned =>
     /\ Len(children) = total_servers(config.experiments, 1)
     /\ ServerIdsIncrease

(* C15 amended: exactly as many tracked media servers as the worker counts *)
(* add up to, with server ids 1, 2, ... increasing by one across the       *)
(* experiments and the same experiment id within an experiment; with       *)
(* logging enabled the supervisor also tracks one log reporter per log     *)
(* stem for each media server, none with logging disabled.                 *)
C15_NMediaServersTracked ==
  AllSpawned =>
     /\ ServerIdsIncrease
     /\ Len(children) = total_children(config)
     /\ Len(children) - Len(MediaServers) =
          IF config.enable_logging THEN Len(MediaServers) * Len(log_stems) ELSE 0

C15_Witness ==
  /\ pc = "wait"
  /\ config.enable_logging
  /\ Len(config.experiments) = 1
  /\ Len(MediaServers) = 2
  /\ MediaServers[2].args[3] = <<"2">>
  /\ Len(children) = 2 * (1 + Len(log_stems))

(* an argument as the worker reads it: the value of a string of digits *)
RECURSIVE digits_value(_, _)
digits_value(str, k) ==
  IF k = 0 THEN 0
  ELSE 10 * digits_value(str, k - 1) + (CHOOSE v \in 0..9 : Digit[v + 1] = str[k])

IsPositiveInteger(str) ==
  /\ Len(str) > 0
  /\ \A k \in 1..Len(str) : \E v \in 0..9 : Digit[v + 1] = str[k]
  /\ digits_value(str, Len(str)) > 0

(* C16: every media server the orchestrator starts is invoked with a       *)
(* positive integer server id and a positive integer experiment id,        *)
(* whatever the lookup of the experiment id did.                           *)
C16_PositiveIds ==
  \A k \in 1..Len(MediaServers) :
     /\ IsPositiveInteger(MediaServers[k].args[3])
     /\ IsPositiveInteger(MediaServers[k].args[4])

(* C17: calls of retrieve_expt_id with the same input return the same      *)
(* identifier, also when two callers interleave their select and insert    *)
(* steps.  (Calls that could not reach the database are left aside.)       *)
C17_SameInputSameId ==
  \A x, y \in returned :
     (x.json = y.json /\ x.how # "unreachable" /\ y.how # "unreachable") => x.id = y.id

(* C18: wait() returns only when every tracked child is terminal; what it  *)
(* returns is zero exactly if no child ended ExitedFailed or Killed; by    *)
(* then the callback of each failed child has fired exactly once and that  *)
(* of no other child has fired.                                            *)
C18_WaitOutcome ==
  [][(pc = "wait" /\ pc' = "exited") =>
       /\ \A c \in 1..Len(children) : children[c].status \in Terminal
       /\ wait_ret' = 0 <=> (\A c \in 1..Len(children) : children[c].status \notin Failed)
       /\ \A c \in 1..Len(children) :
            children[c].fired = IF children[c].status \in Failed THEN 1 ELSE 0
       /\ children' = children]_vars

C18_Witness ==
  /\ pc = "exited"
  /\ Len(children) >= 3
  /\ Cardinality({c \in 1..Len(children) : children[c].status \in Failed}) = 1
  /\ \E c \in 1..Len(children) : children[c].status = "ExitedClean"
  /\ wait_ret # 0

(* C19: once every child has been started, the exit status of the process  *)
(* is what wait() returned: non-zero if wait() reported a failure, zero    *)
(* otherwise.                                                              *)
C19_ExitStatusIsAggregate ==
  pc = "exited" => (exit_status = wait_ret /\ (exit_status = 0 <=> wait_ret = 0))

C19_Witness ==
  /\ pc = "exited"
  /\ wait_ret = 255
  /\ exit_status = 255

(* C20: read_exactly(n, false) on a descriptor whose source has at least n *)
(* bytes left from the current position returns exactly those n bytes,     *)
(* whatever was done on the descriptor before.  (Runs in which an OS read  *)
(* itself fails are left aside.)                                           *)
C20_ReadExactlyAvailable ==
  [][(/\ last'.op = "read_exactly" /\ ~last'.arg[2]
      /\ last'.ret[1] # "unix_error"
      /\ Len(Rest(file, offset)) >= last'.arg[1]) =>
       /\ ~last'.raised
       /\ last'.ret[2] = Slice(file, offset, last'.arg[1])]_vars

TypeOK ==
  /\ dstate \in [Descs -> {"unborn", "alive", "destroyed"}]
  /\ fd_ \in [Descs -> Handles \cup {Invalid}]
  /\ epollers_ \in [Descs -> [EpollFds -> Epollers \cup {None}]]
  /\ reg \in [Epollers -> SUBSET Handles]
  /\ open \subseteq Handles
====
